---------------------------- MODULE Spec2Model ----------------------------
(***************************************************************************)
(* Model of cs_tools/updater/_updater.py: the Command Runner               *)
(* (CSToolsVirtualEnvironment.run), the Environment Manager (make, reset,  *)
(* pip, with_offline_mode, ensure_directories) and the PATH Registrars     *)
(* (UnixPath, WindowsPath); and of cs_tools/middlewares/pinboard.py: the   *)
(* pagination loop of PinboardMiddleware.all.                              *)
(*                                                                         *)
(* Text is a sequence of tokens.  A shell profile is tokenised into its    *)
(* newlines and the runs of characters between them; a registry PATH value *)
(* into its separators and directory names; a line of process output into  *)
(* its characters.  Substring search, replace, partition and strip are     *)
(* computed on these sequences as Python computes them on str.             *)
(***************************************************************************)
EXTENDS Integers, Sequences, FiniteSets, TLC

VARIABLES
    \* ---- PATH registrar ----
    platform,     \* "unix" | "windows": which registrar variant is in use
    SHELL,        \* os.environ.get("SHELL", "")
    ZDOTDIR,      \* os.getenv("ZDOTDIR"): NoDir when unset
    files,        \* shell profile files: path -> [exists, text]
    regPATH,      \* HKCU\Environment PATH: [present, text]
    links,        \* sys_pydir/{cs_tools,cstools}.exe: name -> "absent"|"symlink"|"copy"
    lastOp,       \* the registrar call that produced the current store
    lastOp2,      \* the registrar call before it
    prev,         \* the store before lastOp
    prev2,        \* the store before lastOp2
    \* ---- Environment Manager ----
    venv,              \* what exists under venv_path
    offline_directory, \* CSToolsVirtualEnvironment.offline_directory
    offlineSet,        \* the argument of the last with_offline_mode() call
    ret,               \* the last call: what it was given, what it issued
    built,             \* the tree under venv_path is the work of a builder run that succeeded
    bootstrapped,      \* since then 'pip install "pip >= 23.1" --upgrade' was issued and succeeded
    \* ---- ensure_directories ----
    dirs,         \* which of venv_path, cache_dir, log_dir, tmp_dir exist
    tmp,          \* the entries of tmp_dir: name -> [kind, del]
    edRet,        \* the last ensure_directories() call
    \* ---- Command Runner ----
    runRet,       \* the last run() call
    \* ---- UnixPath.add / unset, one file operation at a time ----
    exclusive,    \* calls on the profile run one at a time, no edit in between
    profile,      \* the text of the one profile file
    editors,      \* caller -> [pc, op, contents]: where its call is, what it read
    outside,      \* what the file holds besides the snippet, as its writers left it
    edits,        \* how many external edits were made
    \* ---- PinboardMiddleware.all ----
    server,       \* the headers the server holds, in its order
    chunksize,    \* the chunksize argument
    exclude_system_content,  \* the exclude_system_content argument
    pinPc,        \* "loop" | "break" | "done" | "raised"
    offset,       \* the local offset
    pinboards,    \* the local pinboards, before filtering
    requests,     \* the metadata/list requests made so far, oldest first
    result        \* what all() returned

pathVars == <<platform, SHELL, ZDOTDIR, files, regPATH, links, lastOp, lastOp2, prev, prev2>>

envVars == <<venv, offline_directory, offlineSet, ret, built, bootstrapped>>

dirVars == <<dirs, tmp, edRet>>

raceVars == <<exclusive, profile, editors, outside, edits>>

pinVars == <<server, chunksize, exclude_system_content, pinPc, offset, pinboards, requests, result>>

vars == <<pathVars, envVars, dirVars, runRet, raceVars, pinVars>>

(***************************************************************************)
(* Text helpers (Python str semantics on token sequences)                  *)
(***************************************************************************)

\* s is at position i of t (1-based)
OccursAt(t, s, i) ==
    /\ i >= 1
    /\ i + Len(s) - 1 <= Len(t)
    /\ SubSeq(t, i, i + Len(s) - 1) = s

\* Python: s in t
Contains(t, s) == \E i \in 1..(Len(t) + 1) : OccursAt(t, s, i)

\* Python: t.startswith(s)
StartsWith(t, s) == OccursAt(t, s, 1)

\* Python: t.find(s) + 1, 0 when s is not in t
Find(t, s) ==
    IF Contains(t, s)
    THEN CHOOSE i \in 1..(Len(t) + 1) :
            /\ OccursAt(t, s, i)
            /\ \A j \in 1..(i - 1) : ~OccursAt(t, s, j)
    ELSE 0

\* t with the Len(s) tokens at position i cut out
CutAt(t, s, i) == SubSeq(t, 1, i - 1) \o SubSeq(t, i + Len(s), Len(t))

\* a replace that stops after the leftmost occurrence: t.replace(s, "", 1)
ReplaceFirstOnly(t, s) ==
    IF Contains(t, s) THEN CutAt(t, s, Find(t, s)) ELSE t

RECURSIVE StrReplace(_, _)
\* Python: t.replace(s, ""), s non-empty: every non-overlapping occurrence,
\* scanning left to right
StrReplace(t, s) ==
    IF Len(t) < Len(s) THEN t
    ELSE IF StartsWith(t, s) THEN StrReplace(SubSeq(t, Len(s) + 1, Len(t)), s)
    ELSE <<Head(t)>> \o StrReplace(Tail(t), s)

RECURSIVE Flatten(_)
Flatten(ss) == IF ss = <<>> THEN <<>> ELSE Head(ss) \o Flatten(Tail(ss))

\* every sequence of at most n elements of S
SeqsUpTo(S, n) == UNION {[1..k -> S] : k \in 0..n}

(***************************************************************************)
(* Bounds of the model                                                     *)
(***************************************************************************)

\* a profile file's initial text is made of at most this many pieces
MaxPieces == 2

\* a registry PATH value initially holds at most this many tokens
MaxPathLen == 3

\* a caller of pip() passes at most this many arguments
MaxArgs == 2

\* tmp_dir holds at most this many entries
MaxTmpEntries == 2

\* a child process prints at most this many lines
MaxLines == 2

(***************************************************************************)
(* PATH Registrar: UnixPath                                                *)
(***************************************************************************)

NL == "\n"

\* UnixPath.profile_snippet, one token per newline and per line of text
profile_snippet ==
    << NL, "# absolute path to ThoughtSpot's CS Tools",
       NL, "export PATH=$PATH:{bin_dir}",
       NL, "export LC_ALL=en_US.utf-8",
       NL, "export LANG=en_US.utf-8",
       NL >>

NoDir == "<unset>"
home == "~"
zdot == "$ZDOTDIR"

Path(dir, name) == <<dir, name>>

base_profile == Path(home, ".profile")

Paths ==
    {Path(home, n) : n \in {".profile", ".zprofile", ".zshrc", ".bash_profile", ".bashrc"}}
        \cup {Path(zdot, n) : n \in {".zprofile", ".zshrc"}}

ShellValues == {"", "/bin/bash", "/bin/zsh"}

\* "zsh" in os.environ.get("SHELL", "")
HasZsh(shell) == shell \in {"/bin/zsh"}

AbsentFile == [exists |-> FALSE, text |-> <<>>]
File(t) == [exists |-> TRUE, text |-> t]

\* pathlib.Path.touch(exist_ok=True)
Touch(fs, p) == IF fs[p].exists THEN fs ELSE [fs EXCEPT ![p] = File(<<>>)]

GetShellProfilesBashFirst ==
    <<base_profile>>
        \o <<Path(home, ".bash_profile"), Path(home, ".bashrc")>>
        \o (IF HasZsh(SHELL)
            THEN LET zdotdir == IF ZDOTDIR = NoDir THEN home ELSE ZDOTDIR
                 IN  <<Path(zdotdir, ".zprofile"), Path(zdotdir, ".zshrc")>>
            ELSE <<>>)

\* UnixPath.get_shell_profiles: the list it returns (it also touches the
\* base profile, see UnixAdd and UnixUnset)
GetShellProfiles ==
    <<base_profile>>
        \o (IF HasZsh(SHELL)
            THEN LET zdotdir == IF ZDOTDIR = NoDir THEN home ELSE ZDOTDIR
                 IN  <<Path(zdotdir, ".zprofile"), Path(zdotdir, ".zshrc")>>
            ELSE <<>>)
        \o <<Path(home, ".bash_profile"), Path(home, ".bashrc")>>

AddToProfileAlways(f) ==
    IF ~f.exists THEN f ELSE File(f.text \o profile_snippet)

\* the body of the loop of UnixPath.add for one profile
AddToProfile(f) ==
    IF ~f.exists THEN f
    ELSE IF ~Contains(f.text, profile_snippet)
         THEN File(f.text \o profile_snippet)
         ELSE f

UnsetFromProfileFirstOnly(f) ==
    IF ~f.exists THEN f
    ELSE IF Contains(f.text, profile_snippet)
         THEN File(ReplaceFirstOnly(f.text, profile_snippet))
         ELSE f

\* the body of the loop of UnixPath.unset for one profile
UnsetFromProfile(f) ==
    IF ~f.exists THEN f
    ELSE IF Contains(f.text, profile_snippet)
         THEN File(StrReplace(f.text, profile_snippet))
         ELSE f

RECURSIVE AddLoop(_, _)
\* UnixPath.add: for profile in profiles
AddLoop(fs, profiles) ==
    IF profiles = <<>> THEN fs
    ELSE AddLoop([fs EXCEPT ![Head(profiles)] = AddToProfile(@)], Tail(profiles))

RECURSIVE UnsetLoop(_, _)
\* UnixPath.unset: for profile in profiles
UnsetLoop(fs, profiles) ==
    IF profiles = <<>> THEN fs
    ELSE UnsetLoop([fs EXCEPT ![Head(profiles)] = UnsetFromProfile(@)], Tail(profiles))

(***************************************************************************)
(* PATH Registrar: WindowsPath                                             *)
(***************************************************************************)

\* WindowsPath.bin_dir.as_posix()
bin_dir == <<"C:/cs_tools/.cs_tools/Scripts">>

SEP == ";"

PathTokens == {SEP, "C:/Windows", "/sub"} \cup {bin_dir[1]}

LinkNames == {"cs_tools.exe", "cstools.exe"}

NoValue == [present |-> FALSE, text |-> <<>>]
Value(t) == [present |-> TRUE, text |-> t]

\* WindowsPath.add, PATH present: the value written back
WinAddValue(PATH) ==
    IF ~Contains(PATH, bin_dir) THEN PATH \o <<SEP>> \o bin_dir ELSE PATH

WinUnsetDirOnly(PATH) == StrReplace(PATH, bin_dir)

\* WindowsPath.unset, PATH present: the value written back
WinUnsetValue(PATH) == StrReplace(PATH, <<SEP>> \o bin_dir)


(***************************************************************************)
(* Environment Manager                                                     *)
(***************************************************************************)

None == "None"

\* what the environment-builder puts under venv_path
VenvEntries == {"bin/python", "lib", "pyvenv.cfg"}

exeScripts == "Scripts/python.exe"

\* CSToolsVirtualEnvironment.exe, relative to venv_path (not Windows)
exe == "bin/python"

\* CSToolsVirtualEnvironment.exists
exists == exe \in venv

\* sys.executable and system_exe
sys_executable == "sys.executable"
system_exe == "sys._base_executable"

OfflineDirs == {"/offline/a", "/offline/b"}

\* pathlib.Path.joinpath(name).as_posix()
joinpath(d, name) ==
    CASE d = "/offline/a" /\ name = "requirements.txt" -> "/offline/a/requirements.txt"
      [] d = "/offline/a" /\ name = "dependencies" -> "/offline/a/dependencies"
      [] d = "/offline/b" /\ name = "requirements.txt" -> "/offline/b/requirements.txt"
      [] d = "/offline/b" /\ name = "dependencies" -> "/offline/b/dependencies"

\* pip(): required_general_args
required_general_args ==
    << "--isolated", "--no-cache-dir", "--disable-pip-version-check",
       "--trusted-host", "files.pythonhosted.org",
       "--trusted-host", "pypi.org",
       "--trusted-host", "pypi.python.org",
       "--trusted-host", "github.com",
       "--trusted-host", "codeload.github.com" >>

\* pip(): the args that replace the caller's in offline mode
offline_args(d) ==
    << "--requirement", joinpath(d, "requirements.txt"),
       "--upgrade",
       "--upgrade-strategy", "eager",
       "--progress-bar", "off",
       "--find-links", joinpath(d, "dependencies"),
       "--no-index" >>

PipArgvOfflineAnyCommand(command, args, with_system_python) ==
    LET final == IF offline_directory # None
                 THEN offline_args(offline_directory)
                 ELSE args
        python == IF with_system_python THEN system_exe ELSE exe
    IN  <<python, "-m", "pip", command>> \o required_general_args \o final

\* pip(): the argument vector handed to run()
PipArgv(command, args, with_system_python) ==
    LET final == IF command = "install" /\ offline_directory # None
                 THEN offline_args(offline_directory)
                 ELSE args
        python == IF with_system_python THEN system_exe ELSE exe
    IN  <<python, "-m", "pip", command>> \o required_general_args \o final

\* what a call leaves in ret
Ret(op, raised, calls, command, args) ==
    [ op |-> op, raised |-> raised, calls |-> calls,
      command |-> command, args |-> args,
      before |-> venv, offline |-> offlineSet ]

NoCall == [ op |-> "none", raised |-> FALSE, calls |-> <<>>,
            command |-> "", args |-> <<>>,
            before |-> {}, offline |-> None ]

PipCommands == {"install", "list", "uninstall"}
PipArgs == {"x==1.0", "--yes"}

\* with_offline_mode(find_links)
WithOfflineMode ==
    \E d \in OfflineDirs :
        /\ offline_directory' = d
        /\ offlineSet' = d
        /\ ret' = Ret("with_offline_mode", FALSE, <<>>, "", <<>>)
        /\ UNCHANGED <<venv, built, bootstrapped, pathVars, dirVars, runRet, raceVars, pinVars>>

\* pip(command, *args, with_system_python): one child process, which exits
\* zero or not; run() raises when it does not
Pip ==
    \E command \in PipCommands, args \in SeqsUpTo(PipArgs, MaxArgs),
       sys \in BOOLEAN, failed \in BOOLEAN :
        /\ ret' = Ret("pip", failed, <<PipArgv(command, args, sys)>>, command, args)
        /\ UNCHANGED <<venv, built, bootstrapped, offline_directory, offlineSet, pathVars, dirVars, runRet, raceVars, pinVars>>

BuilderArgv == <<sys_executable, "-m", "venv", "venv_path">>
EnsurepipArgv == <<exe, "-m", "ensurepip">>
BootstrapArgs == <<"pip >= 23.1", "--upgrade">>

\* the body of make() on the tree v, for the call named op (make() itself,
\* or reset() after its rmtree).  Each of the three child processes exits
\* zero or not; the first failure raises.  The builder leaves the whole
\* tree when it succeeds and any part of it when it fails.
MakeOn(v, op) ==
    IF exe \in v
    THEN /\ venv' = v
         /\ ret' = Ret(op, FALSE, <<>>, "", <<>>)
         /\ UNCHANGED <<built, bootstrapped>>
    ELSE \E outcome \in {"builder failed", "ensurepip failed", "pip failed", "ok"} :
            LET pipArgv == PipArgv("install", BootstrapArgs, FALSE)
            IN  CASE outcome = "builder failed" ->
                        /\ \E partial \in SUBSET VenvEntries : venv' = v \cup partial
                        /\ ret' = Ret(op, TRUE, <<BuilderArgv>>, "", <<>>)
                        /\ built' = FALSE
                        /\ bootstrapped' = FALSE
                  [] outcome = "ensurepip failed" ->
                        /\ venv' = v \cup VenvEntries
                        /\ ret' = Ret(op, TRUE, <<BuilderArgv, EnsurepipArgv>>, "", <<>>)
                        /\ built' = TRUE
                        /\ bootstrapped' = FALSE
                  [] outcome = "pip failed" ->
                        /\ venv' = v \cup VenvEntries
                        /\ ret' = Ret(op, TRUE, <<BuilderArgv, EnsurepipArgv, pipArgv>>, "", <<>>)
                        /\ built' = TRUE
                        /\ bootstrapped' = FALSE
                  [] outcome = "ok" ->
                        /\ venv' = v \cup VenvEntries
                        /\ ret' = Ret(op, FALSE, <<BuilderArgv, EnsurepipArgv, pipArgv>>, "", <<>>)
                        /\ built' = TRUE
                        /\ bootstrapped' = Contains(pipArgv, BootstrapArgs)

\* make()
Make ==
    /\ MakeOn(venv, "make")
    /\ UNCHANGED <<offline_directory, offlineSet, pathVars, dirVars, runRet, raceVars, pinVars>>

\* reset(): shutil.rmtree(venv_path, ignore_errors=True) deletes what it
\* can, any entry may survive it; then make()
Reset ==
    /\ \E survivors \in SUBSET venv : MakeOn(survivors, "reset")
    /\ UNCHANGED <<offline_directory, offlineSet, pathVars, dirVars, runRet, raceVars, pinVars>>

IdleEnv ==
    /\ venv = {}
    /\ offline_directory = None
    /\ offlineSet = None
    /\ ret = NoCall
    /\ built = FALSE
    /\ bootstrapped = FALSE


(***************************************************************************)
(* Environment Manager: ensure_directories                                 *)
(***************************************************************************)

DirNames == {"venv_path", "cache_dir", "log_dir", "tmp_dir"}

TmpNames == 1..MaxTmpEntries

\* an entry of tmp_dir is a file or not (a directory), and deleting it
\* succeeds ("ok"), is refused with PermissionError ("perm") or fails with
\* another OSError ("oserror", e.g. a read-only file system)
NoEntry == [kind |-> "none", del |-> "ok"]
Entries == [kind : {"file", "dir"}, del : {"ok", "perm", "oserror"}]

CleanEntryNoCatch(e) ==
    IF e.kind = "file"
    THEN CASE e.del = "ok" -> "removed"
           [] e.del = "perm" -> "raise"
           [] e.del = "oserror" -> "raise"
    ELSE IF e.del = "ok" THEN "removed" ELSE "kept"

\* the body of the cleaning loop of ensure_directories for one entry:
\* unlink(missing_ok=True) for a file, with PermissionError caught and
\* logged; rmtree(ignore_errors=True) for anything else
CleanEntry(e) ==
    IF e.kind = "file"
    THEN CASE e.del = "ok" -> "removed"
           [] e.del = "perm" -> "warned"
           [] e.del = "oserror" -> "raise"
    ELSE IF e.del = "ok" THEN "removed" ELSE "kept"

RECURSIVE CleanLoop(_, _, _)
\* for path in tmp_dir.iterdir(), in the order the directory lists them
CleanLoop(t, order, warned) ==
    IF order = <<>> THEN [tmp |-> t, raised |-> FALSE, warned |-> warned]
    ELSE LET n == Head(order)
             did == CleanEntry(t[n])
         IN  CASE did = "removed" ->
                     CleanLoop([t EXCEPT ![n] = NoEntry], Tail(order), warned)
               [] did = "warned" -> CleanLoop(t, Tail(order), warned \cup {n})
               [] did = "kept" -> CleanLoop(t, Tail(order), warned)
               [] did = "raise" -> [tmp |-> t, raised |-> TRUE, warned |-> warned]

\* the orders in which iterdir may list the names S
Orders(S) ==
    {f \in [1..Cardinality(S) -> S] : \A i, j \in DOMAIN f : f[i] = f[j] => i = j}

NoEdCall == [op |-> "none", raised |-> FALSE, warned |-> {},
             before |-> [n \in TmpNames |-> NoEntry]]

\* ensure_directories(): four mkdir(parents=True, exist_ok=True), then the
\* cleaning loop
EnsureDirectories ==
    /\ dirs' = DirNames
    /\ \E order \in Orders({n \in TmpNames : tmp[n] # NoEntry}) :
          LET r == CleanLoop(tmp, order, {})
          IN  /\ tmp' = r.tmp
              /\ edRet' = [op |-> "ensure_directories", raised |-> r.raised,
                           warned |-> r.warned, before |-> tmp]
    /\ UNCHANGED <<pathVars, envVars, runRet, raceVars, pinVars>>

\* another part of the program, or the user, puts an entry into tmp_dir
TmpWrite ==
    /\ "tmp_dir" \in dirs
    /\ \E n \in TmpNames, e \in Entries :
          /\ tmp[n] = NoEntry
          /\ tmp' = [tmp EXCEPT ![n] = e]
    /\ edRet' = NoEdCall
    /\ UNCHANGED <<dirs, pathVars, envVars, runRet, raceVars, pinVars>>

IdleDirs ==
    /\ dirs = {}
    /\ tmp = [n \in TmpNames |-> NoEntry]
    /\ edRet = NoEdCall

(***************************************************************************)
(* Command Runner                                                          *)
(***************************************************************************)

ERROR == <<"E", "R", "R", "O", "R">>
WARNING == <<"W", "A", "R", "N", "I", "N", "G">>
INFO == <<"I", "N", "F", "O">>
DEBUG == <<"D", "E", "B", "U", "G">>
CRITICAL == <<"C", "R", "I", "T", "I", "C", "A", "L">>

\* the names getattr(logging, level) resolves to a level number, among
\* those a line of output or base_log_level can give
LoggingLevels == {DEBUG, INFO, WARNING, ERROR, CRITICAL}

Whitespace == {" ", NL}

RECURSIVE LStrip(_)
LStrip(t) == IF t # <<>> /\ Head(t) \in Whitespace THEN LStrip(Tail(t)) ELSE t

RECURSIVE RStrip(_)
RStrip(t) ==
    IF t # <<>> /\ t[Len(t)] \in Whitespace THEN RStrip(SubSeq(t, 1, Len(t) - 1)) ELSE t

\* Python: t.strip()
Strip(t) == RStrip(LStrip(t))

\* Python: t.partition(sep), without the middle
Partition(t, sep) ==
    LET i == Find(t, sep)
    IN  IF i = 0 THEN [head |-> t, tail |-> <<>>]
        ELSE [head |-> SubSeq(t, 1, i - 1), tail |-> SubSeq(t, i + Len(sep), Len(t))]

\* run(): the if/else at the top of the loop body
Classify(line, base_log_level) ==
    IF StartsWith(line, ERROR) \/ StartsWith(line, WARNING)
    THEN LET parts == Partition(line, <<":", " ">>)
         IN  [level |-> parts.head, line |-> parts.tail, buffer |-> "stderr"]
    ELSE [level |-> base_log_level, line |-> line, buffer |-> "stdout"]

RECURSIVE ReadLines(_, _, _, _)
\* run(): for line in iter(proc.stdout.readline, "")
ReadLines(lines, acc, should_stream_output, base_log_level) ==
    IF lines = <<>> THEN acc
    ELSE LET c == Classify(Head(lines), base_log_level)
             logs == should_stream_output /\ c.line # <<>>
         IN  IF logs /\ c.level \notin LoggingLevels
             THEN [acc EXCEPT !.raised = "AttributeError"]
             ELSE ReadLines(
                    Tail(lines),
                    [acc EXCEPT
                       !.log = IF logs
                               THEN Append(@, [level |-> c.level, msg |-> Strip(c.line)])
                               ELSE @,
                       !.final_stdout = IF c.buffer = "stdout" THEN Append(@, c.line) ELSE @,
                       !.final_stderr = IF c.buffer = "stderr" THEN Append(@, c.line) ELSE @,
                       !.routed = Append(@, c)],
                    should_stream_output, base_log_level)

\* the lines a child process prints: with or without a leading ERROR or
\* WARNING, then more letters or not, then ': ' or not, then text
Lines ==
    { head \o mid \o sep \o <<"x", NL>> :
        head \in {<<>>, ERROR, WARNING},
        mid \in {<<>>, <<"S">>, <<" ", "i", "n", " ", "a">>},
        sep \in {<<>>, <<":", " ">>} }

NoRun == [ lines |-> <<>>, base_log_level |-> INFO, returncode |-> 0,
           raised |-> "none", log |-> <<>>,
           final_stdout |-> <<>>, final_stderr |-> <<>>, routed |-> <<>> ]

\* run(*args, raise_on_failure, should_stream_output, base_log_level) on a
\* child process that prints `lines` and exits with `returncode`; every
\* call starts from empty buffers
Run ==
    /\ runRet = NoRun
    /\ \E lines \in SeqsUpTo(Lines, MaxLines), returncode \in {0, 1},
          raise_on_failure \in BOOLEAN, should_stream_output \in BOOLEAN,
          base_log_level \in {INFO, DEBUG} :
          LET start == [NoRun EXCEPT !.lines = lines,
                                     !.base_log_level = base_log_level,
                                     !.returncode = returncode]
              read == ReadLines(lines, start, should_stream_output, base_log_level)
          IN  runRet' =
                 IF read.raised = "none" /\ raise_on_failure /\ returncode # 0
                 THEN [read EXCEPT !.raised = "RuntimeError"]
                 ELSE read
    /\ UNCHANGED <<pathVars, envVars, dirVars, raceVars, pinVars>>

\* the caller is done with the CompletedProcess, or with the exception
Discard ==
    /\ runRet # NoRun
    /\ runRet' = NoRun
    /\ UNCHANGED <<pathVars, envVars, dirVars, raceVars, pinVars>>

IdleRun == runRet = NoRun

(***************************************************************************)
(* PATH Registrar (unix): add() and unset() on one existing profile, one   *)
(* file operation per step                                                 *)
(***************************************************************************)

\* the processes that call add() or unset() on the profile
Callers == {"A", "B"}

\* what someone else appends to the profile
EditLine == <<"y">>

\* that someone makes at most this many edits
MaxEdits == 1

\* a caller outside any call
NoRead == [pc |-> "idle", op |-> "none", contents |-> <<>>]

\* caller c may take a step: under exclusive access only while every other
\* caller is outside its call
MayAct(c) == exclusive => \A d \in Callers \ {c} : editors[d].pc = "idle"

\* profile.read_text() of add(), and the test on what was read
AddRead(c) ==
    /\ editors[c].pc = "idle"
    /\ MayAct(c)
    /\ editors' = [editors EXCEPT ![c] =
                    IF ~Contains(profile, profile_snippet)
                    THEN [pc |-> "write", op |-> "add", contents |-> profile]
                    ELSE NoRead]
    /\ UNCHANGED <<exclusive, profile, outside, edits, pathVars, envVars, dirVars, runRet, pinVars>>

\* profile.open(mode="a") and f.write(profile_snippet) of add(): the
\* snippet goes to the end of what the file holds now
AddWrite(c) ==
    /\ editors[c].pc = "write"
    /\ editors[c].op = "add"
    /\ profile' = profile \o profile_snippet
    /\ editors' = [editors EXCEPT ![c] = NoRead]
    /\ UNCHANGED <<exclusive, outside, edits, pathVars, envVars, dirVars, runRet, pinVars>>

\* contents = profile.read_text() of unset(), and the test on contents
UnsetRead(c) ==
    /\ editors[c].pc = "idle"
    /\ MayAct(c)
    /\ editors' = [editors EXCEPT ![c] =
                    IF Contains(profile, profile_snippet)
                    THEN [pc |-> "write", op |-> "unset", contents |-> profile]
                    ELSE NoRead]
    /\ UNCHANGED <<exclusive, profile, outside, edits, pathVars, envVars, dirVars, runRet, pinVars>>

\* contents.replace(...), profile.open(mode="w") and f.write(contents) of
\* unset(): the file becomes what was read, less the snippet
UnsetWrite(c) ==
    /\ editors[c].pc = "write"
    /\ editors[c].op = "unset"
    /\ profile' = StrReplace(editors[c].contents, profile_snippet)
    /\ editors' = [editors EXCEPT ![c] = NoRead]
    /\ UNCHANGED <<exclusive, outside, edits, pathVars, envVars, dirVars, runRet, pinVars>>

\* someone else appends a line to the profile; under exclusive access only
\* between calls
ExternalEdit ==
    /\ edits < MaxEdits
    /\ exclusive => \A c \in Callers : editors[c].pc = "idle"
    /\ profile' = profile \o EditLine
    /\ outside' = outside \o EditLine
    /\ edits' = edits + 1
    /\ UNCHANGED <<exclusive, editors, pathVars, envVars, dirVars, runRet, pinVars>>

IdleRace ==
    /\ exclusive = TRUE
    /\ profile = <<>>
    /\ editors = [c \in Callers |-> NoRead]
    /\ outside = <<>>
    /\ edits = 0

(***************************************************************************)
(* PinboardMiddleware.all                                                  *)
(***************************************************************************)

\* the server holds at most this many pinboard headers
MaxHeaders == 3

\* the chunksize argument is at most this
MaxChunk == 3

Min(a, b) == IF a < b THEN a ELSE b

\* the authors whose pinboards are system content, and one who is not
SystemAuthors == {"system", "tsadmin"}
Authors == SystemAuthors \cup {"alice"}

\* the lists the server may hold: 1..MaxHeaders headers with distinct ids
ServerLists ==
    UNION { { [i \in 1..n |-> [id |-> i, authorName |-> a[i]]] :
                a \in [1..n -> Authors] } : n \in 1..MaxHeaders }

\* the server's answer to metadata/list(batchsize, offset): the slice at
\* offset of at most batchsize headers, flagged when it reaches the end
Response(list, off, batchsize) ==
    [ headers     |-> SubSeq(list, off + 1, Min(off + batchsize, Len(list))),
      isLastBatch |-> off + batchsize >= Len(list) ]

\* an offset that counts batches, not headers
NextOffsetByOne(off, headers) == off + 1

\* offset += len(data['headers'])
NextOffset(off, headers) == off + Len(headers)

\* the comprehension of lines 76-80
RECURSIVE ExcludeSystem(_)
ExcludeSystem(ps) ==
    IF ps = <<>> THEN <<>>
    ELSE IF Head(ps).authorName \in SystemAuthors THEN ExcludeSystem(Tail(ps))
    ELSE <<Head(ps)>> \o ExcludeSystem(Tail(ps))

\* one turn of the while loop: request, extend, advance, raise or break
Batch ==
    /\ pinPc = "loop"
    /\ LET data == Response(server, offset, chunksize)
           got  == pinboards \o data.headers
       IN  /\ requests' = Append(requests,
                              [offset |-> offset, batchsize |-> chunksize,
                               received |-> Len(pinboards),
                               isLastBatch |-> data.isLastBatch])
           /\ pinboards' = got
           /\ offset' = NextOffset(offset, data.headers)
           /\ pinPc' = IF data.headers = <<>> /\ got = <<>> THEN "raised"
                       ELSE IF data.isLastBatch THEN "break"
                       ELSE "loop"
    /\ UNCHANGED <<server, chunksize, exclude_system_content, result, pathVars, envVars, dirVars, runRet, raceVars>>

\* after the loop: the filter on authorName, and the return
Return ==
    /\ pinPc = "break"
    /\ result' = IF exclude_system_content THEN ExcludeSystem(pinboards)
                 ELSE pinboards
    /\ pinPc' = "done"
    /\ UNCHANGED <<server, chunksize, exclude_system_content, offset, pinboards, requests,
                   pathVars, envVars, dirVars, runRet, raceVars>>

IdlePin ==
    /\ server = <<>>
    /\ chunksize = 0
    /\ exclude_system_content = FALSE
    /\ pinPc = "done"
    /\ offset = 0
    /\ pinboards = <<>>
    /\ requests = <<>>
    /\ result = <<>>

(***************************************************************************)
(* PATH Registrar: state machine                                           *)
(***************************************************************************)

Store == [files |-> files, reg |-> regPATH, links |-> links]

\* history kept for the claims: the last two calls and the stores they found
Remember(op) ==
    /\ lastOp' = op
    /\ lastOp2' = lastOp
    /\ prev' = Store
    /\ prev2' = prev

\* UnixPath.add
UnixAdd ==
    /\ platform = "unix"
    /\ files' = AddLoop(Touch(files, base_profile), GetShellProfiles)
    /\ Remember("add")
    /\ UNCHANGED <<platform, SHELL, ZDOTDIR, regPATH, links, envVars, dirVars, runRet, raceVars, pinVars>>

\* UnixPath.unset
UnixUnset ==
    /\ platform = "unix"
    /\ files' = UnsetLoop(Touch(files, base_profile), GetShellProfiles)
    /\ Remember("unset")
    /\ UNCHANGED <<platform, SHELL, ZDOTDIR, regPATH, links, envVars, dirVars, runRet, raceVars, pinVars>>

\* WindowsPath.add
WinAdd ==
    /\ platform = "windows"
    /\ IF ~regPATH.present
       THEN \* symlink_paths, twice: a symlink, or a copy when symlinking fails
            /\ links' \in [LinkNames -> {"symlink", "copy"}]
            /\ UNCHANGED regPATH
       ELSE /\ regPATH' = Value(WinAddValue(regPATH.text))
            /\ UNCHANGED links
    /\ Remember("add")
    /\ UNCHANGED <<platform, SHELL, ZDOTDIR, files, envVars, dirVars, runRet, raceVars, pinVars>>

\* WindowsPath.unset
WinUnset ==
    /\ platform = "windows"
    /\ IF ~regPATH.present
       THEN /\ links' = [n \in LinkNames |-> "absent"]
            /\ UNCHANGED regPATH
       ELSE /\ regPATH' = Value(WinUnsetValue(regPATH.text))
            /\ UNCHANGED links
    /\ Remember("unset")
    /\ UNCHANGED <<platform, SHELL, ZDOTDIR, files, envVars, dirVars, runRet, raceVars, pinVars>>

\* the pieces a profile's initial text is made of: a newline, a line of
\* other text, the snippet, the snippet without its last newline
Pieces ==
    { <<NL>>, <<"x">>, profile_snippet,
      SubSeq(profile_snippet, 1, Len(profile_snippet) - 1) }

Texts(n) == {Flatten(ps) : ps \in SeqsUpTo(Pieces, n)}

NoPath == <<"", "">>

\* what the one other profile holds at the start: nothing, other text, or
\* the snippet
OtherTexts == {<<>>, <<"x">>, profile_snippet}

\* the base profile absent or with any text; at most one other profile
\* present
InitFiles ==
    { [p \in Paths |->
         IF p = base_profile THEN b
         ELSE IF p = o THEN File(t)
         ELSE AbsentFile] :
      b \in {AbsentFile} \cup {File(x) : x \in Texts(MaxPieces)},
      o \in (Paths \ {base_profile}) \cup {NoPath},
      t \in OtherTexts }

InitPath ==
    /\ platform \in {"unix", "windows"}
    /\ IF platform = "unix"
       THEN /\ SHELL \in ShellValues
            /\ ZDOTDIR \in {NoDir, zdot}
            /\ files \in InitFiles
            /\ regPATH = NoValue
            /\ links = [n \in LinkNames |-> "absent"]
       ELSE /\ SHELL = ""
            /\ ZDOTDIR = NoDir
            /\ files = [p \in Paths |-> AbsentFile]
            /\ regPATH \in {NoValue} \cup {Value(t) : t \in SeqsUpTo(PathTokens, MaxPathLen)}
            /\ links \in IF regPATH.present
                        THEN {[n \in LinkNames |-> "absent"]}
                        ELSE [LinkNames -> {"absent", "symlink", "copy"}]
    /\ lastOp = "none"
    /\ lastOp2 = "none"
    /\ prev = Store
    /\ prev2 = Store
    /\ IdleEnv
    /\ IdleDirs
    /\ IdleRun
    /\ IdleRace
    /\ IdlePin

NextPath == UnixAdd \/ UnixUnset \/ WinAdd \/ WinUnset

SpecPath == InitPath /\ [][NextPath]_vars

(***************************************************************************)
(* Claims about the PATH Registrars (checked under SpecPath)               *)
(***************************************************************************)

Range(q) == {q[i] : i \in 1..Len(q)}

\* the profiles a call made in this state works on
Targets == Range(GetShellProfiles)

\* no target profile of store st contains the snippet, and its PATH value
\* does not contain what the given operator looks for
NoSnippetIn(st) ==
    \A p \in Targets : st.files[p].exists => ~Contains(st.files[p].text, profile_snippet)

\* the profiles and the PATH value of the current store are those of st
SameContent(st) == files = st.files /\ regPATH = st.reg

\* C1: add() is idempotent: after two consecutive add() calls every profile
\* file and the PATH registry value are what they were after the first.
C1_AddIdempotent ==
    (lastOp = "add" /\ lastOp2 = "add") => SameContent(prev)

\* two add() calls in a row, the first of which appended the snippet to a
\* profile that existed before it
C1_Witness ==
    /\ lastOp = "add" /\ lastOp2 = "add"
    /\ platform = "unix"
    /\ \E p \in Targets :
          /\ prev2.files[p].exists
          /\ prev.files[p].text = prev2.files[p].text \o profile_snippet

\* store st is clean: no target profile contains the snippet and a present
\* PATH value does not contain the executable directory
Clean(st) ==
    /\ NoSnippetIn(st)
    /\ st.reg.present => ~Contains(st.reg.text, bin_dir)

\* C2: inverse law: add() then unset() on a clean store leaves every profile
\* that existed, and the PATH value, with exactly its original content.
C2_InverseLaw ==
    (lastOp = "unset" /\ lastOp2 = "add" /\ Clean(prev2))
        => /\ \A p \in Paths : prev2.files[p].exists => files[p] = prev2.files[p]
           /\ regPATH = prev2.reg

\* C3 as stated: unset() with the registration absent changes no store
\* content and creates no file, the base profile included.
C3_UnsetAbsentCreatesNothing ==
    (/\ lastOp = "unset"
     /\ NoSnippetIn(prev)
     /\ ~Contains(prev.reg.text, <<SEP>> \o bin_dir))
        => SameContent(prev)

\* C3 as amended: unset() with the registration absent changes no store
\* content and creates no file other than the base profile, which it
\* creates empty when it did not exist.
C3_UnsetAbsentNoOp ==
    (/\ lastOp = "unset"
     /\ NoSnippetIn(prev)
     /\ ~Contains(prev.reg.text, <<SEP>> \o bin_dir))
        => /\ \A p \in Paths \ {base_profile} : files[p] = prev.files[p]
           /\ files[base_profile] =
                 IF prev.files[base_profile].exists \/ platform # "unix"
                 THEN prev.files[base_profile]
                 ELSE File(<<>>)
           /\ regPATH = prev.reg

\* unset() ran with nothing registered while the base profile was missing
\* and another profile held text
C3_Witness ==
    /\ lastOp = "unset"
    /\ platform = "unix"
    /\ NoSnippetIn(prev)
    /\ ~prev.files[base_profile].exists
    /\ \E p \in Targets : prev.files[p].exists /\ prev.files[p].text # <<>>

\* "bash" in os.environ.get("SHELL", "")
HasBash(shell) == shell \in {"/bin/bash"}

FileNames(profiles) == [i \in 1..Len(profiles) |-> profiles[i][2]]

ZshNames == <<".zprofile", ".zshrc">>
BashNames == <<".bash_profile", ".bashrc">>

\* add() created no file but the base profile
AddCreatedOnlyBase ==
    lastOp = "add" =>
        \A p \in Paths \ {base_profile} : files[p].exists => prev.files[p].exists

\* C9 as stated: .profile first; the zsh profiles only if zsh is detected,
\* the bash profiles only if bash is detected; add() creates no file but
\* the base profile.
C9_BashOnlyIfDetected ==
    /\ Head(GetShellProfiles) = base_profile
    /\ (\E p \in Targets : p[2] \in Range(ZshNames)) => HasZsh(SHELL)
    /\ (\E p \in Targets : p[2] \in Range(BashNames)) => HasBash(SHELL)
    /\ AddCreatedOnlyBase

\* C9 as amended: .profile first; then the zsh profiles (under ZDOTDIR when
\* set, else home) exactly when zsh is detected; then the bash profiles
\* under home, whatever SHELL is; add() creates no file but the base profile.
C9_Resolution ==
    /\ Head(GetShellProfiles) = base_profile
    /\ FileNames(GetShellProfiles) =
          <<".profile">> \o (IF HasZsh(SHELL) THEN ZshNames ELSE <<>>) \o BashNames
    /\ \A i \in 1..Len(GetShellProfiles) :
          GetShellProfiles[i][1] =
             IF GetShellProfiles[i][2] \in Range(ZshNames) /\ ZDOTDIR # NoDir
             THEN ZDOTDIR ELSE home
    /\ SHELL = "/bin/zsh" =>
          FileNames(GetShellProfiles) =
             <<".profile", ".zprofile", ".zshrc", ".bash_profile", ".bashrc">>
    /\ AddCreatedOnlyBase

\* add() under SHELL=/bin/zsh with ~/.bash_profile present and neither
\* ~/.zprofile nor the base profile present: only the base profile appeared
C9_Witness ==
    /\ lastOp = "add"
    /\ SHELL = "/bin/zsh"
    /\ prev.files[Path(home, ".bash_profile")].exists
    /\ ~prev.files[Path(home, ".zprofile")].exists
    /\ ~prev.files[base_profile].exists
    /\ files[base_profile].exists
    /\ ~files[Path(home, ".zprofile")].exists

\* C10 as stated: unset() deletes the leftmost occurrence of the snippet
\* from each existing target file and keeps every other byte, the other
\* occurrences included.
C10_UnsetRemovesFirstOnly ==
    lastOp = "unset" =>
        \A p \in Targets :
            (prev.files[p].exists /\ Contains(prev.files[p].text, profile_snippet))
                => files[p].text = ReplaceFirstOnly(prev.files[p].text, profile_snippet)

RECURSIVE Scan(_, _, _)
\* where the occurrences of s start that a left-to-right scan of t from
\* position i finds, an occurrence never starting inside the one before it
Scan(t, s, i) ==
    IF i + Len(s) - 1 > Len(t) THEN {}
    ELSE IF OccursAt(t, s, i) THEN {i} \cup Scan(t, s, i + Len(s))
    ELSE Scan(t, s, i + 1)

\* the positions of t outside every occurrence Scan finds
Kept(t, s) ==
    {j \in 1..Len(t) : \A i \in Scan(t, s, 1) : j < i \/ j >= i + Len(s)}

\* u is t restricted to the positions K, in order
IsRestriction(u, t, K) ==
    /\ Len(u) = Cardinality(K)
    /\ \A j \in K : u[Cardinality({k \in K : k <= j})] = t[j]

\* C10 as amended: unset() deletes from each existing target file every
\* occurrence of the snippet that a left-to-right scan finds (no occurrence
\* starting inside the one before it) and keeps every other byte in place.
C10_UnsetRemovesEvery ==
    lastOp = "unset" =>
        \A p \in Targets :
            (prev.files[p].exists /\ Contains(prev.files[p].text, profile_snippet))
                => /\ files[p].exists
                   /\ IsRestriction(files[p].text, prev.files[p].text,
                                    Kept(prev.files[p].text, profile_snippet))

\* unset() ran on a profile that held the snippet twice, and on one that
\* held it once next to other text
C10_Witness ==
    /\ lastOp = "unset"
    /\ \E p \in Targets :
          /\ prev.files[p].exists
          /\ Cardinality(Scan(prev.files[p].text, profile_snippet, 1)) = 2
    /\ \E p \in Targets :
          /\ prev.files[p].exists
          /\ Cardinality(Scan(prev.files[p].text, profile_snippet, 1)) = 1
          /\ files[p].text # <<>>

(***************************************************************************)
(* Environment Manager: state machine                                      *)
(***************************************************************************)

IdlePath ==
    /\ platform = "unix"
    /\ SHELL = ""
    /\ ZDOTDIR = NoDir
    /\ files = [p \in Paths |-> AbsentFile]
    /\ regPATH = NoValue
    /\ links = [n \in LinkNames |-> "absent"]
    /\ lastOp = "none"
    /\ lastOp2 = "none"
    /\ prev = Store
    /\ prev2 = Store

\* the object as constructed, over any tree the disk may hold; a tree that
\* holds the executable is taken to be one an earlier run built and
\* bootstrapped
InitEnv ==
    /\ venv \in SUBSET VenvEntries
    /\ offline_directory = None
    /\ offlineSet = None
    /\ ret = NoCall
    /\ built = ("bin/python" \in venv)
    /\ bootstrapped = ("bin/python" \in venv)
    /\ IdlePath
    /\ IdleDirs
    /\ IdleRun
    /\ IdleRace
    /\ IdlePin

NextEnv == WithOfflineMode \/ Pip \/ Make \/ Reset

SpecEnv == InitEnv /\ [][NextEnv]_vars

(***************************************************************************)
(* Claims about the Environment Manager (checked under SpecEnv)            *)
(***************************************************************************)

\* C4: make() called while the managed executable exists mutates nothing on
\* disk, spawns no child process (builder, ensurepip and pip are invoked
\* zero times) and returns normally.
C4_MakeExistsNoOp ==
    (ret.op = "make" /\ "bin/python" \in ret.before)
        => /\ ret.calls = <<>>
           /\ ~ret.raised
           /\ venv = ret.before

\* make() returned over an environment that an earlier make() built
C4_Witness ==
    /\ ret.op = "make"
    /\ ret.before = VenvEntries
    /\ ret.calls = <<>>

IsBuilderCall(argv) == SubSeq(argv, 2, 3) = <<"-m", "venv">>

\* C5: every reset() that returns without error has invoked the
\* environment-builder during the call and leaves exists() true.
C5_ResetRebuilds ==
    (ret.op = "reset" /\ ~ret.raised)
        => /\ \E i \in 1..Len(ret.calls) : IsBuilderCall(ret.calls[i])
           /\ "bin/python" \in venv

\* the part of a pip argument vector after '-m pip <command>' and the
\* hardening flags
AfterFlags(argv) == SubSeq(argv, 4 + Len(required_general_args) + 1, Len(argv))

\* C6: pip(command, *args) issues '-m pip <command>', the hardening flags,
\* then the caller's args verbatim, unless with_offline_mode(d) was called
\* before and command is 'install': then the args after the flags are the
\* offline recipe for d, whatever the caller passed.
C6_PipOfflineOverride ==
    ret.op = "pip" =>
        LET argv == ret.calls[1] IN
        /\ Len(ret.calls) = 1
        /\ SubSeq(argv, 2, 4) = <<"-m", "pip", ret.command>>
        /\ SubSeq(argv, 5, 4 + Len(required_general_args)) =
              << "--isolated", "--no-cache-dir", "--disable-pip-version-check",
                 "--trusted-host", "files.pythonhosted.org",
                 "--trusted-host", "pypi.org",
                 "--trusted-host", "pypi.python.org",
                 "--trusted-host", "github.com",
                 "--trusted-host", "codeload.github.com" >>
        /\ (ret.offline = None \/ ret.command # "install")
              => AfterFlags(argv) = ret.args
        /\ (ret.offline # None /\ ret.command = "install")
              => AfterFlags(argv) =
                    << "--requirement", joinpath(ret.offline, "requirements.txt"),
                       "--upgrade", "--upgrade-strategy", "eager",
                       "--progress-bar", "off",
                       "--find-links", joinpath(ret.offline, "dependencies"),
                       "--no-index" >>

\* pip('install', 'x==1.0') after with_offline_mode('/offline/a'), and the
\* caller's argument is not in what was issued
C6_Witness ==
    /\ ret.op = "pip"
    /\ ret.command = "install"
    /\ ret.args = <<"x==1.0">>
    /\ ret.offline = "/offline/a"
    /\ ~ \E i \in 1..Len(ret.calls[1]) : ret.calls[1][i] = "x==1.0"

\* C11: whenever a make() call returns without error, the managed
\* environment was built by the environment-builder and, since it was last
\* built, a bootstrap requesting 'pip >= 23.1' with --upgrade has been
\* issued and has succeeded.
C11_BootstrapInvariant ==
    (ret.op = "make" /\ ~ret.raised) => (built /\ bootstrapped)

(***************************************************************************)
(* ensure_directories: state machine and claims (SpecDirs)                 *)
(***************************************************************************)

\* any directories may exist; tmp_dir, when it exists, holds any entries
InitDirs ==
    /\ dirs \in SUBSET DirNames
    /\ tmp \in IF "tmp_dir" \in dirs
               THEN [TmpNames -> Entries \cup {NoEntry}]
               ELSE {[n \in TmpNames |-> NoEntry]}
    /\ edRet = NoEdCall
    /\ IdlePath
    /\ IdleEnv
    /\ IdleRun
    /\ IdleRace
    /\ IdlePin

NextDirs == EnsureDirectories \/ TmpWrite

SpecDirs == InitDirs /\ [][NextDirs]_vars

InitRun ==
    /\ runRet = NoRun
    /\ IdlePath
    /\ IdleEnv
    /\ IdleDirs
    /\ IdleRace
    /\ IdlePin

NextRun == Run \/ Discard

SpecRun == InitRun /\ [][NextRun]_vars

\* the line begins with ERROR or WARNING immediately followed by ': '
Tagged(line, token) == StartsWith(line, token \o <<":", " ">>)

\* C8: a line goes to the error buffer, without its prefix, at severity
\* ERROR or WARNING exactly when it begins with that token immediately
\* followed by ': '; every other line goes unchanged to the normal buffer
\* at base_level; classification never fails.
C8_LineClassification ==
    /\ runRet.raised # "AttributeError"
    /\ \A i \in 1..Len(runRet.routed) :
          LET line == runRet.lines[i]
              r == runRet.routed[i]
          IN  IF Tagged(line, ERROR) \/ Tagged(line, WARNING)
              THEN /\ r.buffer = "stderr"
                   /\ r.level = IF Tagged(line, ERROR) THEN ERROR ELSE WARNING
                   /\ r.level \o <<":", " ">> \o r.line = line
              ELSE /\ r.buffer = "stdout"
                   /\ r.level = runRet.base_log_level
                   /\ r.line = line

(***************************************************************************)
(* add() and unset() on one profile, step by step: state machine           *)
(***************************************************************************)

\* the profile holds any text with at most one snippet in it; the calls run
\* one at a time, or they do not
InitRace ==
    /\ exclusive \in BOOLEAN
    /\ profile \in {t \in Texts(MaxPieces) : Cardinality(Scan(t, profile_snippet, 1)) <= 1}
    /\ editors = [c \in Callers |-> NoRead]
    /\ outside = StrReplace(profile, profile_snippet)
    /\ edits = 0
    /\ IdlePath
    /\ IdleEnv
    /\ IdleDirs
    /\ IdleRun
    /\ IdlePin

NextRace ==
    \/ \E c \in Callers : AddRead(c)
    \/ \E c \in Callers : AddWrite(c)
    \/ \E c \in Callers : UnsetRead(c)
    \/ \E c \in Callers : UnsetWrite(c)
    \/ ExternalEdit

SpecRace == InitRace /\ [][NextRace]_vars

\* the snippet occurs at most once in t and the rest of t is u
SnippetAtMostOnceBeside(t, u) ==
    \/ t = u /\ ~Contains(t, profile_snippet)
    \/ \E i \in 1..Len(t) :
          /\ OccursAt(t, profile_snippet, i)
          /\ CutAt(t, profile_snippet, i) = u
          /\ Cardinality(Scan(t, profile_snippet, 1)) = 1

\* C12: when the add() and unset() calls on a profile run one at a time,
\* every byte of the file outside the snippet is preserved and the snippet
\* occurs at most once.
C12_ExclusiveAccessPreserves ==
    exclusive => SnippetAtMostOnceBeside(profile, outside)

\* an edit made by someone else between a call's read and its write is gone
LostUpdate ==
    /\ ~exclusive
    /\ edits = 1
    /\ ~Contains(profile, EditLine)

\* two add() calls that both read "absent" have both appended
AppendedTwice ==
    /\ ~exclusive
    /\ Cardinality(Scan(profile, profile_snippet, 1)) >= 2

\* C12, the interleaved half: a state where another writer's change is lost
\* and the snippet was appended twice
C12_Witness == LostUpdate /\ AppendedTwice

(***************************************************************************)
(* PinboardMiddleware.all: state machine                                   *)
(***************************************************************************)

\* all() was called with any chunksize and either filter setting against a
\* server holding one header or more; offset = 0 and pinboards = [] are set
InitPin ==
    /\ server \in ServerLists
    /\ chunksize \in 0..MaxChunk
    /\ exclude_system_content \in BOOLEAN
    /\ pinPc = "loop"
    /\ offset = 0
    /\ pinboards = <<>>
    /\ requests = <<>>
    /\ result = <<>>
    /\ IdlePath
    /\ IdleEnv
    /\ IdleDirs
    /\ IdleRun
    /\ IdleRace

NextPin == Batch \/ Return

\* a call that can take its next step takes it
SpecPin == InitPin /\ [][NextPin]_vars /\ WF_vars(NextPin)

\* all() is over: it returned or it raised
Finished == pinPc \in {"done", "raised"}

\* every request so far asked for the offset equal to the number of headers
\* received before it, and none was made after a batch flagged isLastBatch
RequestsInStep ==
    /\ \A i \in 1..Len(requests) : requests[i].offset = requests[i].received
    /\ \A i \in 1..Len(requests) : requests[i].isLastBatch => i = Len(requests)
    /\ (requests # <<>> /\ requests[Len(requests)].isLastBatch) => pinPc # "loop"

\* the loop has not raised, made no more requests than there are headers,
\* and once it is left pinboards is the server's list: every header once,
\* in server order
CollectsAll ==
    /\ pinPc # "raised"
    /\ Len(requests) <= Len(server)
    /\ pinPc \in {"break", "done"} => pinboards = server

\* C13 as stated, for any chunksize: all() requests each batch at the offset
\* equal to the number of headers received so far, stops at the first batch
\* flagged isLastBatch, and leaves the loop having collected every header
\* exactly once in server order.
C13_CollectsAllAnyChunksize == RequestsInStep /\ CollectsAll

\* C13 as amended: with chunksize >= 1, all() ends after at most N requests,
\* each at the offset equal to the number of headers received so far, none
\* after a batch flagged isLastBatch, having collected every header exactly
\* once in server order; with chunksize = 0 it still ends.
C13_Pagination ==
    /\ [](chunksize >= 1 => (RequestsInStep /\ CollectsAll))
    /\ <>Finished

\* a call that took two requests or more and returned the whole list
C13_Witness ==
    /\ chunksize >= 1
    /\ pinPc = "done"
    /\ Len(requests) >= 2
    /\ pinboards = server

=============================================================================
